---- MODULE Spec2Model ----
(***************************************************************************)
(* The board of truncate_core (src/truncate_core/src/board.rs) as a state  *)
(* machine: the grid of squares, the per-player roots and orientations,    *)
(* and one action per public operation of Board.  Coordinates are          *)
(* zero-based as in the source; the grid is a sequence of rows, so the     *)
(* square at Coordinate {x, y} is squares[y + 1][x + 1].                   *)
(***************************************************************************)
EXTENDS Integers, Sequences, FiniteSets, TLC

VARIABLES squares, roots, orientations, pre, last

vars == <<squares, roots, orientations, pre, last>>

(***************************************************************************)
(* Bounds of the model.                                                    *)
(***************************************************************************)
\* At most MaxTiles squares are occupied at a time (the tile supply is finite).
MaxTiles == 3

\* The boards constructed: the arguments <<width, height, padded>> of Board::new,
\* as in tests::makes_default_boards, and one padded board.
NewArgs == {<<2, 1, FALSE>>, <<3, 1, FALSE>>, <<1, 1, TRUE>>}

\* The letters placed on the board.
Letters == {"A", "B"}
\* The player indices callers pass: the two players of Board::new and one
\* index that names no player.
PlayerArgs == {0, 1, 2}

(***************************************************************************)
(* Squares: Option<Square> is None (void), Some(Empty) or                  *)
(* Some(Occupied(player, tile)).                                           *)
(***************************************************************************)
None == [tag |-> "None"]
Empty == [tag |-> "Empty"]
Occupied(player, tile) == [tag |-> "Occupied", player |-> player, tile |-> tile]

Coordinate(x, y) == [x |-> x, y |-> y]

\* usize::saturating_sub
saturating_sub(a, b) == IF a >= b THEN a - b ELSE 0

Directions ==
  {"NorthWest", "North", "NorthEast", "East", "SouthEast", "South", "SouthWest", "West"}

\* Coordinate::add
add(c, direction) ==
  [x |-> CASE direction \in {"West", "NorthWest", "SouthWest"} -> saturating_sub(c.x, 1)
           [] direction \in {"East", "NorthEast", "SouthEast"} -> c.x + 1
           [] OTHER -> c.x,
   y |-> CASE direction \in {"North", "NorthEast", "NorthWest"} -> saturating_sub(c.y, 1)
           [] direction \in {"South", "SouthEast", "SouthWest"} -> c.y + 1
           [] OTHER -> c.y]

\* A faulty neighbors_4 that lists the southern neighbour twice and the western
\* neighbour never.
neighbors_4_no_west(c) ==
  <<add(c, "North"), add(c, "East"), add(c, "South"), add(c, "South")>>

\* Coordinate::neighbors_4: from north, clockwise
neighbors_4(c) == <<add(c, "North"), add(c, "East"), add(c, "South"), add(c, "West")>>

(***************************************************************************)
(* A board value: the three fields of struct Board.                        *)
(***************************************************************************)
Board(sq, rt, ori) == [squares |-> sq, roots |-> rt, orientations |-> ori]

\* Board::width, Board::height
width(b) == Len(b.squares[1])
height(b) == Len(b.squares)

\* A faulty grow that sizes the two new rows before it widens the old ones.
grow_narrow_rows(b) ==
  LET voidRow == [i \in 1..width(b) |-> None]
      widened == [r \in 1..height(b) |-> <<None>> \o b.squares[r] \o <<None>>]
  IN  Board(<<voidRow>> \o widened \o <<voidRow>>,
            [i \in 1..Len(b.roots) |-> Coordinate(b.roots[i].x + 1, b.roots[i].y + 1)],
            b.orientations)

\* Board::grow
grow(b) ==
  LET w == width(b) + 2
      voidRow == [i \in 1..w |-> None]
      widened == [r \in 1..height(b) |-> <<None>> \o b.squares[r] \o <<None>>]
  IN  Board(<<voidRow>> \o widened \o <<voidRow>>,
            [i \in 1..Len(b.roots) |-> Coordinate(b.roots[i].x + 1, b.roots[i].y + 1)],
            b.orientations)

\* A faulty new that puts both roots in column width / 2.
new_roots_same_column(w, h, padded) ==
  LET root0 == Coordinate(w \div 2, 0)
      root1 == Coordinate(w \div 2, h + 1)
      sq == [r \in 1..(h + 2) |->
               [c \in 1..w |->
                  IF r = 1 THEN (IF c = root0.x + 1 THEN Empty ELSE None)
                  ELSE IF r = h + 2 THEN (IF c = root1.x + 1 THEN Empty ELSE None)
                  ELSE Empty]]
      board == Board(sq, <<root0, root1>>, <<"North", "South">>)
  IN  IF padded THEN grow(board) ELSE board

\* Board::new
new(w, h, padded) ==
  LET root0 == Coordinate((w \div 2) + (w % 2) - 1, 0)
      root1 == Coordinate(w \div 2, h + 1)
      sq == [r \in 1..(h + 2) |->
               [c \in 1..w |->
                  IF r = 1 THEN (IF c = root0.x + 1 THEN Empty ELSE None)
                  ELSE IF r = h + 2 THEN (IF c = root1.x + 1 THEN Empty ELSE None)
                  ELSE Empty]]
      board == Board(sq, <<root0, root1>>, <<"North", "South">>)
  IN  IF padded THEN grow(board) ELSE board

\* A faulty get that indexes the rows by x and the columns by y.
get_transposed(b, position) ==
  IF position.x < Len(b.squares) /\ position.y < Len(b.squares[position.x + 1])
  THEN LET sq == b.squares[position.x + 1][position.y + 1]
       IN  IF sq = None
           THEN [tag |-> "Err", error |-> "InvalidPosition", position |-> position]
           ELSE [tag |-> "Ok", square |-> sq]
  ELSE [tag |-> "Err", error |-> "OutSideBoardDimensions", position |-> position]

\* Board::get
get(b, position) ==
  IF position.y < Len(b.squares) /\ position.x < Len(b.squares[position.y + 1])
  THEN LET sq == b.squares[position.y + 1][position.x + 1]
       IN  IF sq = None
           THEN [tag |-> "Err", error |-> "InvalidPosition", position |-> position]
           ELSE [tag |-> "Ok", square |-> sq]
  ELSE [tag |-> "Err", error |-> "OutSideBoardDimensions", position |-> position]

\* The grid with the square at an in-grid position replaced.
WithSquare(sq, position, value) ==
  [sq EXCEPT ![position.y + 1][position.x + 1] = value]

\* A faulty set that writes the square before it looks at the player.
set_writes_first(b, position, player, value) ==
  LET inGrid == position.y < Len(b.squares) /\ position.x < Len(b.squares[position.y + 1])
      written == IF inGrid /\ b.squares[position.y + 1][position.x + 1] # None
                 THEN [b EXCEPT !.squares =
                         WithSquare(b.squares, position, Occupied(player, value))]
                 ELSE b
  IN  IF ~(player < Len(b.roots))
      THEN [board |-> written,
            ret |-> [tag |-> "Err", error |-> "NonExistentPlayer", index |-> player]]
      ELSE IF ~inGrid
      THEN [board |-> b,
            ret |-> [tag |-> "Err", error |-> "OutSideBoardDimensions",
                     position |-> position]]
      ELSE IF b.squares[position.y + 1][position.x + 1] = None
      THEN [board |-> b,
            ret |-> [tag |-> "Err", error |-> "InvalidPosition", position |-> position]]
      ELSE [board |-> written,
            ret |-> [tag |-> "Ok", square |-> Occupied(player, value),
                     coordinate |-> position]]

\* A faulty set that looks at the position before the player.
set_position_first(b, position, player, value) ==
  IF ~(position.y < Len(b.squares) /\ position.x < Len(b.squares[position.y + 1]))
  THEN [board |-> b,
        ret |-> [tag |-> "Err", error |-> "OutSideBoardDimensions", position |-> position]]
  ELSE IF b.squares[position.y + 1][position.x + 1] = None
  THEN [board |-> b,
        ret |-> [tag |-> "Err", error |-> "InvalidPosition", position |-> position]]
  ELSE IF ~(player < Len(b.roots))
  THEN [board |-> b, ret |-> [tag |-> "Err", error |-> "NonExistentPlayer", index |-> player]]
  ELSE [board |-> [b EXCEPT !.squares =
                     WithSquare(b.squares, position, Occupied(player, value))],
        ret |-> [tag |-> "Ok", square |-> Occupied(player, value),
                 coordinate |-> position]]

\* A faulty set that keeps the owner of a square that is already occupied.
set_keeps_owner(b, position, player, value) ==
  IF ~(player < Len(b.roots))
  THEN [board |-> b, ret |-> [tag |-> "Err", error |-> "NonExistentPlayer", index |-> player]]
  ELSE IF ~(position.y < Len(b.squares) /\ position.x < Len(b.squares[position.y + 1]))
  THEN [board |-> b,
        ret |-> [tag |-> "Err", error |-> "OutSideBoardDimensions", position |-> position]]
  ELSE LET old == b.squares[position.y + 1][position.x + 1]
           written == IF old.tag = "Occupied" THEN Occupied(old.player, value)
                      ELSE Occupied(player, value)
       IN  IF old = None
           THEN [board |-> b,
                 ret |-> [tag |-> "Err", error |-> "InvalidPosition",
                          position |-> position]]
           ELSE [board |-> [b EXCEPT !.squares = WithSquare(b.squares, position, written)],
                 ret |-> [tag |-> "Ok", square |-> Occupied(player, value),
                          coordinate |-> position]]

\* A faulty set that does not look the player up among the roots.
set_unchecked_player(b, position, player, value) ==
  IF position.y < Len(b.squares) /\ position.x < Len(b.squares[position.y + 1])
  THEN IF b.squares[position.y + 1][position.x + 1] # None
       THEN [board |-> [b EXCEPT !.squares =
                           WithSquare(b.squares, position, Occupied(player, value))],
             ret |-> [tag |-> "Ok", square |-> Occupied(player, value),
                      coordinate |-> position]]
       ELSE [board |-> b,
             ret |-> [tag |-> "Err", error |-> "InvalidPosition", position |-> position]]
  ELSE [board |-> b,
        ret |-> [tag |-> "Err", error |-> "OutSideBoardDimensions", position |-> position]]

\* Board::set: the board afterwards and the returned Result
set(b, position, player, value) ==
  IF ~(player < Len(b.roots))
  THEN [board |-> b, ret |-> [tag |-> "Err", error |-> "NonExistentPlayer", index |-> player]]
  ELSE IF position.y < Len(b.squares) /\ position.x < Len(b.squares[position.y + 1])
  THEN IF b.squares[position.y + 1][position.x + 1] # None
       THEN [board |-> [b EXCEPT !.squares =
                           WithSquare(b.squares, position, Occupied(player, value))],
             ret |-> [tag |-> "Ok", square |-> Occupied(player, value),
                      coordinate |-> position]]
       ELSE [board |-> b,
             ret |-> [tag |-> "Err", error |-> "InvalidPosition", position |-> position]]
  ELSE [board |-> b,
        ret |-> [tag |-> "Err", error |-> "OutSideBoardDimensions", position |-> position]]

\* A faulty clear that reports the square it empties and leaves it occupied.
clear_keeps_square(b, position) ==
  IF /\ position.y < Len(b.squares)
     /\ position.x < Len(b.squares[position.y + 1])
     /\ b.squares[position.y + 1][position.x + 1].tag = "Occupied"
  THEN [board |-> b,
        ret |-> [tag |-> "Some", square |-> b.squares[position.y + 1][position.x + 1],
                 coordinate |-> position]]
  ELSE [board |-> b, ret |-> [tag |-> "None"]]

\* A faulty clear that empties the square before it builds the detail.
clear_reports_empty(b, position) ==
  IF /\ position.y < Len(b.squares)
     /\ position.x < Len(b.squares[position.y + 1])
     /\ b.squares[position.y + 1][position.x + 1].tag = "Occupied"
  THEN [board |-> [b EXCEPT !.squares = WithSquare(b.squares, position, Empty)],
        ret |-> [tag |-> "Some", square |-> Empty, coordinate |-> position]]
  ELSE [board |-> b, ret |-> [tag |-> "None"]]

\* Board::clear: the board afterwards and the returned Option
clear(b, position) ==
  IF /\ position.y < Len(b.squares)
     /\ position.x < Len(b.squares[position.y + 1])
     /\ b.squares[position.y + 1][position.x + 1].tag = "Occupied"
  THEN [board |-> [b EXCEPT !.squares = WithSquare(b.squares, position, Empty)],
        ret |-> [tag |-> "Some", square |-> b.squares[position.y + 1][position.x + 1],
                 coordinate |-> position]]
  ELSE [board |-> b, ret |-> [tag |-> "None"]]

\* Board::neighbouring_squares: the neighbours whose get succeeds, in the order
\* of neighbors_4, each with its square
neighbouring_squares(b, position) ==
  LET n4 == neighbors_4(position)
      pick(i) == IF get(b, n4[i]).tag = "Ok"
                 THEN << <<n4[i], get(b, n4[i]).square>> >>
                 ELSE << >>
  IN  pick(1) \o pick(2) \o pick(3) \o pick(4)

RECURSIVE dfs(_, _, _)
RECURSIVE dfs_neighbours(_, _, _, _, _)
RECURSIVE dfs_neighbours_any_owner(_, _, _, _, _)

\* A faulty loop of dfs that follows occupied neighbours of any owner.
dfs_neighbours_any_owner(b, player, ns, i, visited) ==
  IF i > Len(ns) THEN visited
  ELSE LET position == ns[i][1]
           square == ns[i][2]
           after == IF square.tag = "Occupied" /\ position \notin visited
                    THEN dfs(b, position, visited)
                    ELSE visited
       IN  dfs_neighbours_any_owner(b, player, ns, i + 1, after)

\* The for loop of dfs over neighbouring_squares(position), from its i-th element
dfs_neighbours(b, player, ns, i, visited) ==
  IF i > Len(ns) THEN visited
  ELSE LET position == ns[i][1]
           square == ns[i][2]
           after == IF /\ square.tag = "Occupied"
                       /\ position \notin visited
                       /\ player = square.player
                    THEN dfs(b, position, visited)
                    ELSE visited
       IN  dfs_neighbours(b, player, ns, i + 1, after)

\* fn dfs inside Board::depth_first_search: the visited set afterwards
dfs(b, position, visited) ==
  LET g == get(b, position) IN
  IF g.tag = "Ok" /\ g.square.tag = "Occupied"
  THEN dfs_neighbours(b, g.square.player, neighbouring_squares(b, position), 1,
                      visited \cup {position})
  ELSE visited

\* Board::depth_first_search
depth_first_search(b, position) == dfs(b, position, {})

\* A faulty swap whose second set writes the first position again.
swap_writes_first_twice(b, player, positions, swap_rules) ==
  LET failed(error) == [board |-> b, ret |-> [tag |-> "Err", error |-> error]]
      g1 == get(b, positions[1])
      g2 == get(b, positions[2])
  IN
  IF positions[1] = positions[2] THEN failed("SelfSwap")
  ELSE IF /\ swap_rules = "Contiguous"
          /\ positions[2] \notin depth_first_search(b, positions[1])
  THEN failed("DisjointSwap")
  ELSE IF swap_rules = "None" THEN failed("NoSwapping")
  ELSE IF g1.tag = "Err" THEN [board |-> b, ret |-> g1]
  ELSE IF g1.square = Empty THEN failed("UnoccupiedSwap")
  ELSE IF g1.square.player # player THEN failed("UnownedSwap")
  ELSE IF g2.tag = "Err" THEN [board |-> b, ret |-> g2]
  ELSE IF g2.square = Empty THEN failed("UnoccupiedSwap")
  ELSE IF g2.square.player # player THEN failed("UnownedSwap")
  ELSE LET s1 == set(b, positions[1], player, g2.square.tile)
           s2 == set(s1.board, positions[1], player, g1.square.tile)
       IN  IF s1.ret.tag = "Err" THEN s1
           ELSE IF s2.ret.tag = "Err" THEN s2
           ELSE [board |-> s2.board,
                 ret |-> [tag |-> "Ok",
                          changes |-> <<[detail |-> [square |-> s1.ret.square,
                                                     coordinate |-> s1.ret.coordinate],
                                         action |-> "Swapped"],
                                        [detail |-> [square |-> s2.ret.square,
                                                     coordinate |-> s2.ret.coordinate],
                                         action |-> "Swapped"]>>]]

\* A faulty swap that reads the letter for the second position after the first
\* position is written.
swap_reads_after_write(b, player, positions, swap_rules) ==
  LET failed(error) == [board |-> b, ret |-> [tag |-> "Err", error |-> error]]
      g1 == get(b, positions[1])
      g2 == get(b, positions[2])
  IN
  IF positions[1] = positions[2] THEN failed("SelfSwap")
  ELSE IF /\ swap_rules = "Contiguous"
          /\ positions[2] \notin depth_first_search(b, positions[1])
  THEN failed("DisjointSwap")
  ELSE IF swap_rules = "None" THEN failed("NoSwapping")
  ELSE IF g1.tag = "Err" THEN [board |-> b, ret |-> g1]
  ELSE IF g1.square = Empty THEN failed("UnoccupiedSwap")
  ELSE IF g1.square.player # player THEN failed("UnownedSwap")
  ELSE IF g2.tag = "Err" THEN [board |-> b, ret |-> g2]
  ELSE IF g2.square = Empty THEN failed("UnoccupiedSwap")
  ELSE IF g2.square.player # player THEN failed("UnownedSwap")
  ELSE LET s1 == set(b, positions[1], player, g2.square.tile)
           s2 == set(s1.board, positions[2], player,
                     get(s1.board, positions[1]).square.tile)
       IN  IF s1.ret.tag = "Err" THEN s1
           ELSE IF s2.ret.tag = "Err" THEN s2
           ELSE [board |-> s2.board,
                 ret |-> [tag |-> "Ok",
                          changes |-> <<[detail |-> [square |-> s1.ret.square,
                                                     coordinate |-> s1.ret.coordinate],
                                         action |-> "Swapped"],
                                        [detail |-> [square |-> s2.ret.square,
                                                     coordinate |-> s2.ret.coordinate],
                                         action |-> "Swapped"]>>]]

\* A faulty swap that asks for a contiguous pair under every rule but None.
swap_universal_gated(b, player, positions, swap_rules) ==
  LET failed(error) == [board |-> b, ret |-> [tag |-> "Err", error |-> error]]
      g1 == get(b, positions[1])
      g2 == get(b, positions[2])
  IN
  IF positions[1] = positions[2] THEN failed("SelfSwap")
  ELSE IF /\ swap_rules # "None"
          /\ positions[2] \notin depth_first_search(b, positions[1])
  THEN failed("DisjointSwap")
  ELSE IF swap_rules = "None" THEN failed("NoSwapping")
  ELSE IF g1.tag = "Err" THEN [board |-> b, ret |-> g1]
  ELSE IF g1.square = Empty THEN failed("UnoccupiedSwap")
  ELSE IF g1.square.player # player THEN failed("UnownedSwap")
  ELSE IF g2.tag = "Err" THEN [board |-> b, ret |-> g2]
  ELSE IF g2.square = Empty THEN failed("UnoccupiedSwap")
  ELSE IF g2.square.player # player THEN failed("UnownedSwap")
  ELSE LET s1 == set(b, positions[1], player, g2.square.tile)
           s2 == set(s1.board, positions[2], player, g1.square.tile)
       IN  IF s1.ret.tag = "Err" THEN s1
           ELSE IF s2.ret.tag = "Err" THEN s2
           ELSE [board |-> s2.board,
                 ret |-> [tag |-> "Ok",
                          changes |-> <<[detail |-> [square |-> s1.ret.square,
                                                     coordinate |-> s1.ret.coordinate],
                                         action |-> "Swapped"],
                                        [detail |-> [square |-> s2.ret.square,
                                                     coordinate |-> s2.ret.coordinate],
                                         action |-> "Swapped"]>>]]

\* A faulty swap that does not compare the owner of the squares with the player.
swap_owner_unchecked(b, player, positions, swap_rules) ==
  LET failed(error) == [board |-> b, ret |-> [tag |-> "Err", error |-> error]]
      g1 == get(b, positions[1])
      g2 == get(b, positions[2])
  IN
  IF positions[1] = positions[2] THEN failed("SelfSwap")
  ELSE IF /\ swap_rules = "Contiguous"
          /\ positions[2] \notin depth_first_search(b, positions[1])
  THEN failed("DisjointSwap")
  ELSE IF swap_rules = "None" THEN failed("NoSwapping")
  ELSE IF g1.tag = "Err" THEN [board |-> b, ret |-> g1]
  ELSE IF g1.square = Empty THEN failed("UnoccupiedSwap")
  ELSE IF g2.tag = "Err" THEN [board |-> b, ret |-> g2]
  ELSE IF g2.square = Empty THEN failed("UnoccupiedSwap")
  ELSE LET s1 == set(b, positions[1], player, g2.square.tile)
           s2 == set(s1.board, positions[2], player, g1.square.tile)
       IN  IF s1.ret.tag = "Err" THEN s1
           ELSE IF s2.ret.tag = "Err" THEN s2
           ELSE [board |-> s2.board,
                 ret |-> [tag |-> "Ok",
                          changes |-> <<[detail |-> [square |-> s1.ret.square,
                                                     coordinate |-> s1.ret.coordinate],
                                         action |-> "Swapped"],
                                        [detail |-> [square |-> s2.ret.square,
                                                     coordinate |-> s2.ret.coordinate],
                                         action |-> "Swapped"]>>]]

\* A faulty swap that consults the rules before it compares the positions.
swap_rules_first(b, player, positions, swap_rules) ==
  LET failed(error) == [board |-> b, ret |-> [tag |-> "Err", error |-> error]]
      g1 == get(b, positions[1])
      g2 == get(b, positions[2])
  IN
  IF /\ swap_rules = "Contiguous"
          /\ positions[2] \notin depth_first_search(b, positions[1])
  THEN failed("DisjointSwap")
  ELSE IF swap_rules = "None" THEN failed("NoSwapping")
  ELSE IF positions[1] = positions[2] THEN failed("SelfSwap")
  ELSE IF g1.tag = "Err" THEN [board |-> b, ret |-> g1]
  ELSE IF g1.square = Empty THEN failed("UnoccupiedSwap")
  ELSE IF g1.square.player # player THEN failed("UnownedSwap")
  ELSE IF g2.tag = "Err" THEN [board |-> b, ret |-> g2]
  ELSE IF g2.square = Empty THEN failed("UnoccupiedSwap")
  ELSE IF g2.square.player # player THEN failed("UnownedSwap")
  ELSE LET s1 == set(b, positions[1], player, g2.square.tile)
           s2 == set(s1.board, positions[2], player, g1.square.tile)
       IN  IF s1.ret.tag = "Err" THEN s1
           ELSE IF s2.ret.tag = "Err" THEN s2
           ELSE [board |-> s2.board,
                 ret |-> [tag |-> "Ok",
                          changes |-> <<[detail |-> [square |-> s1.ret.square,
                                                     coordinate |-> s1.ret.coordinate],
                                         action |-> "Swapped"],
                                        [detail |-> [square |-> s2.ret.square,
                                                     coordinate |-> s2.ret.coordinate],
                                         action |-> "Swapped"]>>]]

\* Board::swap: the board afterwards and the returned Result
swap(b, player, positions, swap_rules) ==
  LET failed(error) == [board |-> b, ret |-> [tag |-> "Err", error |-> error]]
      g1 == get(b, positions[1])
      g2 == get(b, positions[2])
  IN
  IF positions[1] = positions[2] THEN failed("SelfSwap")
  ELSE IF /\ swap_rules = "Contiguous"
          /\ positions[2] \notin depth_first_search(b, positions[1])
  THEN failed("DisjointSwap")
  ELSE IF swap_rules = "None" THEN failed("NoSwapping")
  ELSE IF g1.tag = "Err" THEN [board |-> b, ret |-> g1]
  ELSE IF g1.square = Empty THEN failed("UnoccupiedSwap")
  ELSE IF g1.square.player # player THEN failed("UnownedSwap")
  ELSE IF g2.tag = "Err" THEN [board |-> b, ret |-> g2]
  ELSE IF g2.square = Empty THEN failed("UnoccupiedSwap")
  ELSE IF g2.square.player # player THEN failed("UnownedSwap")
  ELSE LET s1 == set(b, positions[1], player, g2.square.tile)
           s2 == set(s1.board, positions[2], player, g1.square.tile)
       IN  IF s1.ret.tag = "Err" THEN s1
           ELSE IF s2.ret.tag = "Err" THEN s2
           ELSE [board |-> s2.board,
                 ret |-> [tag |-> "Ok",
                          changes |-> <<[detail |-> [square |-> s1.ret.square,
                                                     coordinate |-> s1.ret.coordinate],
                                         action |-> "Swapped"],
                                        [detail |-> [square |-> s2.ret.square,
                                                     coordinate |-> s2.ret.coordinate],
                                         action |-> "Swapped"]>>]]

RECURSIVE truncate_scan_returns_late(_, _, _, _, _)

\* A faulty scan of truncate that reads the letter to return after the square
\* is cleared.
truncate_scan_returns_late(b, attatched, k, changes, returned) ==
  IF k >= height(b) * width(b)
  THEN [board |-> b, changes |-> changes, returned |-> returned]
  ELSE LET c == Coordinate(k % width(b), k \div width(b))
           cl == clear(b, c)
           g == get(cl.board, c)
       IN  IF c \notin attatched
           THEN truncate_scan_returns_late(cl.board, attatched, k + 1,
                  IF cl.ret.tag = "Some"
                  THEN Append(changes, [detail |-> [square |-> cl.ret.square,
                                                    coordinate |-> cl.ret.coordinate],
                                        action |-> "Truncated"])
                  ELSE changes,
                  IF g.tag = "Ok" /\ g.square.tag = "Occupied"
                  THEN Append(returned, g.square.tile)
                  ELSE returned)
           ELSE truncate_scan_returns_late(b, attatched, k + 1, changes, returned)

RECURSIVE truncate_scan(_, _, _, _, _)

\* The flat_map of Board::truncate over the squares in row-major order, from
\* the k-th square: the board, the changes collected and the letters passed to
\* bag.return_tile
truncate_scan(b, attatched, k, changes, returned) ==
  IF k >= height(b) * width(b)
  THEN [board |-> b, changes |-> changes, returned |-> returned]
  ELSE LET c == Coordinate(k % width(b), k \div width(b))
           g == get(b, c)
           cl == clear(b, c)
       IN  IF c \notin attatched
           THEN truncate_scan(cl.board, attatched, k + 1,
                  IF cl.ret.tag = "Some"
                  THEN Append(changes, [detail |-> [square |-> cl.ret.square,
                                                    coordinate |-> cl.ret.coordinate],
                                        action |-> "Truncated"])
                  ELSE changes,
                  IF g.tag = "Ok" /\ g.square.tag = "Occupied"
                  THEN Append(returned, g.square.tile)
                  ELSE returned)
           ELSE truncate_scan(b, attatched, k + 1, changes, returned)

\* Board::truncate
truncate(b) ==
  truncate_scan(b,
                UNION {depth_first_search(b, b.roots[i]) : i \in 1..Len(b.roots)},
                0, << >>, << >>)

\* A faulty read_top_to_bottom that is true of the players that read from left
\* to right.
read_top_to_bottom_as_left_to_right(direction) ==
  direction = "South" \/ direction = "East"

\* Direction::read_top_to_bottom, Direction::read_left_to_right
read_top_to_bottom(direction) == direction = "South" \/ direction = "West"
read_left_to_right(direction) == direction = "South" \/ direction = "East"

\* Vec::reverse
reverse(s) == [i \in 1..Len(s) |-> s[Len(s) + 1 - i]]

RECURSIVE get_words_walk_any_owner(_, _, _, _, _)

\* A faulty loop of get_words that does not stop at a square of another player.
get_words_walk_any_owner(b, owner, location, direction, word) ==
  LET g == get(b, location) IN
  IF g.tag = "Ok" /\ g.square.tag = "Occupied"
  THEN IF add(location, direction) = location
       THEN [diverges |-> TRUE, word |-> word]
       ELSE get_words_walk_any_owner(b, owner, add(location, direction), direction,
                                     IF direction = "South" \/ direction = "East"
                                     THEN Append(word, location)
                                     ELSE <<location>> \o word)
  ELSE [diverges |-> FALSE, word |-> word]

RECURSIVE get_words_walk(_, _, _, _, _)

\* The while loop of Board::get_words, entered with `location`.  The loop
\* reads only `location` and the board, and the board is not modified: when
\* Coordinate::add returns `location` itself on a square that passes the test of
\* the loop, every later iteration repeats the same test and the loop never
\* exits (diverges).
get_words_walk(b, owner, location, direction, word) ==
  LET g == get(b, location) IN
  IF g.tag = "Ok" /\ g.square.tag = "Occupied" /\ g.square.player = owner
  THEN IF add(location, direction) = location
       THEN [diverges |-> TRUE, word |-> word]
       ELSE get_words_walk(b, owner, add(location, direction), direction,
                           IF direction = "South" \/ direction = "East"
                           THEN Append(word, location)
                           ELSE <<location>> \o word)
  ELSE [diverges |-> FALSE, word |-> word]

\* The word of Board::get_words along one axis <<forwards, backwards>>
get_words_axis(b, owner, position, axis) ==
  LET w1 == get_words_walk(b, owner, add(position, axis[1]), axis[1], <<position>>)
      w2 == get_words_walk(b, owner, add(position, axis[2]), axis[2], w1.word)
  IN  IF w1.diverges THEN w1 ELSE w2

\* Board::get_words: the words returned, or Diverges when a loop never exits
get_words(b, position) ==
  LET g == get(b, position) IN
  IF ~(g.tag = "Ok" /\ g.square.tag = "Occupied")
  THEN [tag |-> "Returns", words |-> << >>]
  ELSE LET owner == g.square.player
           v == get_words_axis(b, owner, position, <<"South", "North">>)
           h == get_words_axis(b, owner, position, <<"East", "West">>)
           orientation == b.orientations[owner + 1]
           w0 == IF ~read_top_to_bottom(orientation) THEN reverse(v.word) ELSE v.word
           w1 == IF ~read_left_to_right(orientation) THEN reverse(h.word) ELSE h.word
       IN  IF v.diverges \/ h.diverges THEN [tag |-> "Diverges"]
           ELSE IF Len(w0) = 1 /\ Len(w1) = 1
           THEN [tag |-> "Returns", words |-> <<w0, w1>>]
           ELSE [tag |-> "Returns",
                 words |-> (IF Len(w0) > 1 THEN <<w0>> ELSE << >>)
                           \o (IF Len(w1) > 1 THEN <<w1>> ELSE << >>)]

RECURSIVE collect_defenders(_, _, _, _)

\* The flat_map of Board::collect_combanants over neighbouring_squares(position),
\* from its i-th element: the words of get_words at each neighbour occupied by
\* another player than `player`, in order; Diverges when a get_words never returns
collect_defenders(b, player, ns, i) ==
  IF i > Len(ns) THEN [tag |-> "Returns", words |-> << >>]
  ELSE IF ns[i][2].tag = "Occupied" /\ player # ns[i][2].player
  THEN LET here == get_words(b, ns[i][1])
           rest == collect_defenders(b, player, ns, i + 1)
       IN  IF here.tag = "Diverges" \/ rest.tag = "Diverges"
           THEN [tag |-> "Diverges"]
           ELSE [tag |-> "Returns", words |-> here.words \o rest.words]
  ELSE collect_defenders(b, player, ns, i + 1)

\* Board::collect_combanants: the pair (attackers, defenders), or Diverges
collect_combanants(b, player, position) ==
  LET attackers == get_words(b, position)
      defenders == collect_defenders(b, player, neighbouring_squares(b, position), 1)
  IN  IF attackers.tag = "Diverges" \/ defenders.tag = "Diverges"
      THEN [tag |-> "Diverges"]
      ELSE [tag |-> "Returns", attackers |-> attackers.words,
            defenders |-> defenders.words]

\* The closure of Board::word_strings applied to one coordinate: the character it
\* yields and the value `err` has afterwards
word_strings_square(b, square, err) ==
  LET g == get(b, square) IN
  IF g.tag = "Ok"
  THEN IF g.square = Empty
       THEN [letter |-> "_", err |-> [tag |-> "Err", error |-> "EmptySquareInWord"]]
       ELSE [letter |-> g.square.tile, err |-> err]
  ELSE [letter |-> "_", err |-> g]

RECURSIVE word_strings_first_error_word(_, _, _, _, _)

\* A faulty inner map of word_strings that keeps the first error it meets.
word_strings_first_error_word(b, word, i, string, err) ==
  IF i > Len(word) THEN [string |-> string, err |-> err]
  ELSE LET r == word_strings_square(b, word[i], err)
       IN  word_strings_first_error_word(b, word, i + 1, Append(string, r.letter),
                                         IF err = None THEN r.err ELSE err)

RECURSIVE word_strings_word(_, _, _, _, _)

\* The inner map of word_strings over the coordinates of one word, from the i-th
word_strings_word(b, word, i, string, err) ==
  IF i > Len(word) THEN [string |-> string, err |-> err]
  ELSE LET r == word_strings_square(b, word[i], err)
       IN  word_strings_word(b, word, i + 1, Append(string, r.letter), r.err)

RECURSIVE word_strings_words(_, _, _, _, _)

\* The outer map of word_strings over the words, from the i-th
word_strings_words(b, coordinates, i, strings, err) ==
  IF i > Len(coordinates) THEN [strings |-> strings, err |-> err]
  ELSE LET r == word_strings_word(b, coordinates[i], 1, << >>, err)
       IN  word_strings_words(b, coordinates, i + 1, Append(strings, r.string), r.err)

\* Board::word_strings: a string is the sequence of its characters; `err` starts
\* as None
word_strings(b, coordinates) ==
  LET r == word_strings_words(b, coordinates, 1, << >>, None)
  IN  IF r.err # None THEN r.err ELSE [tag |-> "Ok", strings |-> r.strings]

RECURSIVE from_string_owners(_, _, _)

\* The loop of tests::from_string over the roots, from player index `player`:
\* every square found by depth_first_search from the root of a player other
\* than the first is set to that player
from_string_owners(b, r, player) ==
  IF player >= Len(r) THEN b
  ELSE LET found == depth_first_search(b, r[player + 1])
           owned == [y \in 1..height(b) |->
                       [x \in 1..width(b) |->
                          IF Coordinate(x - 1, y - 1) \in found
                          THEN Occupied(player, b.squares[y][x].tile)
                          ELSE b.squares[y][x]]]
       IN  from_string_owners(IF player # 0 THEN [b EXCEPT !.squares = owned] ELSE b,
                              r, player + 1)

\* tests::from_string, applied to the grid its string stands for
from_string(sq, rt, ori) ==
  IF Len(rt) # Len(ori)
  THEN [tag |-> "Err", error |-> "Every player needs a root and orientation"]
  ELSE IF \E i \in 2..Len(sq) : Len(sq[i]) # Len(sq[1])
  THEN [tag |-> "Err", error |-> "Unequal line lengths"]
  ELSE [tag |-> "Ok", board |-> from_string_owners(Board(sq, rt, ori), rt, 0)]

\* The rows and the columns of the grid that hold a square that is not void.
trim_rows(b) == {r \in 1..height(b) : \E c \in 1..width(b) : b.squares[r][c] # None}
trim_columns(b) == {c \in 1..width(b) : \E r \in 1..height(b) : b.squares[r][c] # None}

\* Iterator::position(..).unwrap_or_default() over 1..n in order, or in reverse
\* order: how many indices precede the first one in `found`, 0 when there is
\* none.
position_or_default(found) ==
  IF found = {} THEN 0 ELSE (CHOOSE i \in found : \A j \in found : i <= j) - 1
rev_position_or_default(found, n) ==
  IF found = {} THEN 0 ELSE n - (CHOOSE i \in found : \A j \in found : j <= i)

\* A faulty trim that leaves the roots where they were.
trim_keeps_roots(b) ==
  LET trim_top == position_or_default(trim_rows(b))
      trim_bottom == rev_position_or_default(trim_rows(b), height(b))
      trim_left == position_or_default(trim_columns(b))
      trim_right == rev_position_or_default(trim_columns(b), width(b))
      kept == SubSeq(b.squares, trim_top + 1, height(b) - trim_bottom)
  IN  Board([r \in 1..Len(kept) |-> SubSeq(kept[r], trim_left + 1, width(b) - trim_right)],
            b.roots,
            b.orientations)

\* Board::trim
trim(b) ==
  LET trim_top == position_or_default(trim_rows(b))
      trim_bottom == rev_position_or_default(trim_rows(b), height(b))
      trim_left == position_or_default(trim_columns(b))
      trim_right == rev_position_or_default(trim_columns(b), width(b))
      kept == SubSeq(b.squares, trim_top + 1, height(b) - trim_bottom)
  IN  Board([r \in 1..Len(kept) |-> SubSeq(kept[r], trim_left + 1, width(b) - trim_right)],
            [i \in 1..Len(b.roots) |->
               Coordinate(saturating_sub(b.roots[i].x, trim_left),
                          saturating_sub(b.roots[i].y, trim_top))],
            b.orientations)

RECURSIVE fog_of_war_flat_map(_, _, _)

\* flat_map of neighbouring_squares over a list of squares, from the i-th
fog_of_war_flat_map(b, ns, i) ==
  IF i > Len(ns) THEN << >>
  ELSE neighbouring_squares(b, ns[i][1]) \o fog_of_war_flat_map(b, ns, i + 1)

\* A faulty enumeration for fog_of_war that takes one step from the square.
fog_of_war_first_steps(b, coord) == neighbouring_squares(b, coord)

\* The inner enumeration of Board::fog_of_war: the flat_map of
\* neighbouring_squares over neighbouring_squares(coord)
fog_of_war_second_steps(b, coord) ==
  fog_of_war_flat_map(b, neighbouring_squares(b, coord), 1)

\* The inner match of Board::fog_of_war: the squares among `steps` occupied by
\* another player than player_index
fog_of_war_others(steps, player_index) ==
  {steps[i][1] : i \in {j \in 1..Len(steps) :
                          /\ steps[j][2].tag = "Occupied"
                          /\ steps[j][2].player # player_index}}

\* The outer match of Board::fog_of_war: Ok(Square::Occupied(player, _)) with
\* player == player_index
fog_of_war_own(square, player_index) ==
  /\ square.tag = "Ok"
  /\ square.square.tag = "Occupied"
  /\ square.square.player = player_index

\* The squares of other players that the first loop of Board::fog_of_war passes
\* to get_words.
fog_of_war_seen(b, player_index) ==
  UNION {IF fog_of_war_own(get(b, Coordinate(x, y)), player_index)
         THEN fog_of_war_others(fog_of_war_second_steps(b, Coordinate(x, y)), player_index)
         ELSE {} : x \in 0..(width(b) - 1), y \in 0..(height(b) - 1)}

\* visible_coords of Board::fog_of_war, from the results of get_words at the
\* squares seen: Diverges when a call of get_words never returns
fog_of_war_extend(results) ==
  IF [tag |-> "Diverges"] \in results
  THEN [tag |-> "Diverges"]
  ELSE [tag |-> "Returns",
        visible_coords |->
          UNION {UNION {{r.words[i][k] : k \in 1..Len(r.words[i])} : i \in 1..Len(r.words)}
                   : r \in results}]

\* The second loop of Board::fog_of_war, which clears each square on its own:
\* the grid is given square by square.
fog_of_war_clear(b, player_index, visible_coords) ==
  [b EXCEPT !.squares =
     [r \in 1..height(b) |->
        [c \in 1..width(b) |->
           IF /\ Coordinate(c - 1, r - 1) \notin visible_coords
              /\ b.squares[r][c].tag = "Occupied"
              /\ b.squares[r][c].player # player_index
           THEN clear(b, Coordinate(c - 1, r - 1)).board.squares[r][c]
           ELSE b.squares[r][c]]]]

\* The return of Board::fog_of_war from what its first loop collected.
fog_of_war_return(b, player_index, seen) ==
  IF seen.tag = "Diverges"
  THEN [tag |-> "Diverges"]
  ELSE [tag |-> "Returns", board |-> fog_of_war_clear(b, player_index, seen.visible_coords)]

\* Board::fog_of_war: the board returned, or Diverges
fog_of_war(b, player_index) ==
  fog_of_war_return(b, player_index,
                    fog_of_war_extend({get_words(b, c) : c \in fog_of_war_seen(b, player_index)}))

\* Option<usize>
Some(value) == [tag |-> "Some", value |-> value]

\* A faulty filter_to_player that keeps the fog once the game has a winner.
filter_to_player_ignores_winner(b, player_index, visibility, winner) ==
  IF visibility = "Standard"
  THEN [tag |-> "Returns", board |-> b]
  ELSE fog_of_war(b, player_index)

\* Board::filter_to_player
filter_to_player(b, player_index, visibility, winner) ==
  IF winner.tag = "Some"
  THEN [tag |-> "Returns", board |-> b]
  ELSE IF visibility = "Standard"
  THEN [tag |-> "Returns", board |-> b]
  ELSE fog_of_war(b, player_index)

\* A faulty comparison that compares y before x.
cmp_y_first(a, b) ==
  IF a.y # b.y THEN (IF a.y < b.y THEN "Less" ELSE "Greater")
  ELSE IF a.x # b.x THEN (IF a.x < b.x THEN "Less" ELSE "Greater")
  ELSE "Equal"

\* Ord::cmp derived for Coordinate: the fields are compared in the order of
\* their declaration, x and then y
cmp(a, b) ==
  IF a.x # b.x THEN (IF a.x < b.x THEN "Less" ELSE "Greater")
  ELSE IF a.y # b.y THEN (IF a.y < b.y THEN "Less" ELSE "Greater")
  ELSE "Equal"

(***************************************************************************)
(* The state machine.  A call of an operation applies it to the board and  *)
(* leaves its arguments and its result in `last` and the board it was      *)
(* called on in `pre`; Return hands control back to the caller, which      *)
(* makes the next call.  A call that never returns is never followed by    *)
(* another.                                                                *)
(***************************************************************************)
CurrentBoard == Board(squares, roots, orientations)

GridCoordinates(b) ==
  {Coordinate(x, y) : x \in 0..(width(b) - 1), y \in 0..(height(b) - 1)}

\* The positions callers pass: every coordinate of the grid, and coordinates
\* one column or one row beyond it.
PositionArgs(b) ==
  GridCoordinates(b) \cup {Coordinate(width(b), 0), Coordinate(0, height(b)),
                           Coordinate(width(b), height(b))}

VoidCoordinates(b) == {c \in GridCoordinates(b) : b.squares[c.y + 1][c.x + 1] = None}

OccupiedCoordinates(b) ==
  {c \in GridCoordinates(b) : b.squares[c.y + 1][c.x + 1].tag = "Occupied"}

\* The positions passed to swap: every square of the grid that is not void, one
\* void square (they all fail alike) and one coordinate beyond the grid.
SwapPositionArgs(b) ==
  (GridCoordinates(b) \ VoidCoordinates(b))
    \cup (IF VoidCoordinates(b) = {} THEN {}
          ELSE {CHOOSE c \in VoidCoordinates(b) : TRUE})
    \cup {Coordinate(width(b), height(b))}

SwapRules == {"Contiguous", "Universal", "None"}

Idle == [op |-> "idle"]

Init ==
  \E args \in NewArgs :
    /\ squares = new(args[1], args[2], args[3]).squares
    /\ roots = new(args[1], args[2], args[3]).roots
    /\ orientations = new(args[1], args[2], args[3]).orientations
    /\ pre = new(args[1], args[2], args[3])
    /\ last = [op |-> "new", width |-> args[1], height |-> args[2], padded |-> args[3]]

Install(b) ==
  /\ squares' = b.squares
  /\ roots' = b.roots
  /\ orientations' = b.orientations
  /\ pre' = CurrentBoard

GetCall ==
  /\ last = Idle
  /\ \E position \in PositionArgs(CurrentBoard) :
       /\ Install(CurrentBoard)
       /\ last' = [op |-> "get", position |-> position,
                   ret |-> get(CurrentBoard, position)]

SetCall ==
  /\ last = Idle
  /\ \E position \in PositionArgs(CurrentBoard), player \in PlayerArgs, value \in Letters :
       LET r == set(CurrentBoard, position, player, value) IN
       /\ Cardinality(OccupiedCoordinates(r.board)) <= MaxTiles
       /\ Install(r.board)
       /\ last' = [op |-> "set", position |-> position, player |-> player,
                   value |-> value, ret |-> r.ret]

SwapCall ==
  /\ last = Idle
  /\ \E a \in SwapPositionArgs(CurrentBoard), b \in SwapPositionArgs(CurrentBoard),
        player \in PlayerArgs, swap_rules \in SwapRules :
       LET r == swap(CurrentBoard, player, <<a, b>>, swap_rules) IN
       /\ Install(r.board)
       /\ last' = [op |-> "swap", player |-> player, positions |-> <<a, b>>,
                   swap_rules |-> swap_rules, ret |-> r.ret]

ClearCall ==
  /\ last = Idle
  /\ \E position \in PositionArgs(CurrentBoard) :
       LET r == clear(CurrentBoard, position) IN
       /\ Install(r.board)
       /\ last' = [op |-> "clear", position |-> position, ret |-> r.ret]

TruncateCall ==
  /\ last = Idle
  /\ LET r == truncate(CurrentBoard) IN
     /\ Install(r.board)
     /\ last' = [op |-> "truncate", ret |-> r.changes, returned |-> r.returned]

DepthFirstSearchCall ==
  /\ last = Idle
  /\ \E position \in PositionArgs(CurrentBoard) :
       /\ Install(CurrentBoard)
       /\ last' = [op |-> "depth_first_search", position |-> position,
                   ret |-> depth_first_search(CurrentBoard, position)]

GetWordsCall ==
  /\ last = Idle
  /\ \E position \in PositionArgs(CurrentBoard) :
       /\ Install(CurrentBoard)
       /\ last' = [op |-> "get_words", position |-> position,
                   ret |-> get_words(CurrentBoard, position)]

CollectCombanantsCall ==
  /\ last = Idle
  /\ \E position \in PositionArgs(CurrentBoard), player \in PlayerArgs :
       /\ Install(CurrentBoard)
       /\ last' = [op |-> "collect_combanants", player |-> player,
                   position |-> position,
                   ret |-> collect_combanants(CurrentBoard, player, position)]

\* The lists of words passed to word_strings: no word, one word of one or two
\* coordinates, or two words of one coordinate.
WordArgs(b) ==
  LET P == SwapPositionArgs(b) IN
  {<< >>} \cup {<< <<c>> >> : c \in P} \cup {<< <<c, d>> >> : c \in P, d \in P}
    \cup {<< <<c>>, <<d>> >> : c \in P, d \in P}

WordStringsCall ==
  /\ last = Idle
  /\ \E coordinates \in WordArgs(CurrentBoard) :
       /\ Install(CurrentBoard)
       /\ last' = [op |-> "word_strings", coordinates |-> coordinates,
                   ret |-> word_strings(CurrentBoard, coordinates)]

\* Whether the last call has returned.
Returned ==
  /\ last.op # "idle"
  /\ ~(/\ last.op \in {"get_words", "collect_combanants", "fog_of_war", "filter_to_player"}
       /\ last.ret.tag = "Diverges")

Return ==
  /\ Returned
  /\ last' = Idle
  /\ pre' = CurrentBoard
  /\ UNCHANGED <<squares, roots, orientations>>

Next ==
  \/ GetCall
  \/ SetCall
  \/ SwapCall
  \/ ClearCall
  \/ TruncateCall
  \/ DepthFirstSearchCall
  \/ GetWordsCall
  \/ CollectCombanantsCall
  \/ WordStringsCall
  \/ Return

Spec == Init /\ [][Next]_vars

(***************************************************************************)
(* Boards whose players face other sides: the board of Board::new(3, 1,    *)
(* false), written as a string and read back by from_string with the same  *)
(* roots and the orientations given, as tests::from_string_succeeds and    *)
(* tests::get_words_orientations construct boards.                         *)
(***************************************************************************)
OrientationArgs == {<<"North", "South">>, <<"West", "East">>}

InitOriented ==
  \E ori \in OrientationArgs :
    LET made == from_string(new(3, 1, FALSE).squares, new(3, 1, FALSE).roots, ori).board IN
    /\ squares = made.squares
    /\ roots = made.roots
    /\ orientations = made.orientations
    /\ pre = made
    /\ last = [op |-> "from_string", orientations |-> ori]

NextOriented ==
  \/ SetCall
  \/ GetWordsCall
  \/ Return

SpecOriented == InitOriented /\ [][NextOriented]_vars

(***************************************************************************)
(* Boards that grow and shrink: the calls that change the board, with grow *)
(* and trim.  A trim that directly follows a grow remembers the board the  *)
(* grow was called on.                                                     *)
(***************************************************************************)
MaxGrownWidth == 5

ResizeArgs == {<<2, 1, FALSE>>, <<1, 1, TRUE>>}

InitResize ==
  \E args \in ResizeArgs :
    /\ squares = new(args[1], args[2], args[3]).squares
    /\ roots = new(args[1], args[2], args[3]).roots
    /\ orientations = new(args[1], args[2], args[3]).orientations
    /\ pre = new(args[1], args[2], args[3])
    /\ last = [op |-> "new", width |-> args[1], height |-> args[2], padded |-> args[3]]

GrowCall ==
  /\ last = Idle
  /\ width(CurrentBoard) + 2 <= MaxGrownWidth
  /\ Install(grow(CurrentBoard))
  /\ last' = [op |-> "grow"]

TrimCall ==
  /\ last = Idle \/ last.op = "grow"
  /\ Install(trim(CurrentBoard))
  /\ last' = [op |-> "trim", grown |-> (last.op = "grow"),
              before |-> IF last.op = "grow" THEN pre ELSE CurrentBoard]

NextResize ==
  \/ SetCall
  \/ SwapCall
  \/ ClearCall
  \/ TruncateCall
  \/ GrowCall
  \/ TrimCall
  \/ Return

SpecResize == InitResize /\ [][NextResize]_vars

(***************************************************************************)
(* What a player is shown: tiles are set, and the board is read through    *)
(* neighbouring_squares, fog_of_war and filter_to_player.                  *)
(***************************************************************************)
ViewArgs == {<<3, 2, FALSE>>, <<1, 1, TRUE>>}

InitView ==
  \E args \in ViewArgs :
    /\ squares = new(args[1], args[2], args[3]).squares
    /\ roots = new(args[1], args[2], args[3]).roots
    /\ orientations = new(args[1], args[2], args[3]).orientations
    /\ pre = new(args[1], args[2], args[3])
    /\ last = [op |-> "new", width |-> args[1], height |-> args[2], padded |-> args[3]]

Visibility == {"Standard", "FogOfWar"}
WinnerArgs == {None, Some(0), Some(1)}

NeighbouringSquaresCall ==
  /\ last = Idle
  /\ \E position \in PositionArgs(CurrentBoard) :
       /\ Install(CurrentBoard)
       /\ last' = [op |-> "neighbouring_squares", position |-> position,
                   ret |-> neighbouring_squares(CurrentBoard, position)]

FogOfWarCall ==
  /\ last = Idle
  /\ \E player_index \in PlayerArgs :
       /\ Install(CurrentBoard)
       /\ last' = [op |-> "fog_of_war", player_index |-> player_index,
                   ret |-> fog_of_war(CurrentBoard, player_index)]

FilterToPlayerCall ==
  /\ last = Idle
  /\ \E player_index \in PlayerArgs, visibility \in Visibility, winner \in WinnerArgs :
       /\ Install(CurrentBoard)
       /\ last' = [op |-> "filter_to_player", player_index |-> player_index,
                   visibility |-> visibility, winner |-> winner,
                   ret |-> filter_to_player(CurrentBoard, player_index, visibility, winner)]

NextView ==
  \/ SetCall
  \/ NeighbouringSquaresCall
  \/ FogOfWarCall
  \/ FilterToPlayerCall
  \/ Return

SpecView == InitView /\ [][NextView]_vars

(***************************************************************************)
(* Comparisons of coordinates.                                             *)
(***************************************************************************)
CmpCall ==
  /\ last = Idle
  /\ \E a \in PositionArgs(CurrentBoard), b \in PositionArgs(CurrentBoard) :
       /\ Install(CurrentBoard)
       /\ last' = [op |-> "cmp", a |-> a, b |-> b, ret |-> cmp(a, b)]

NextOrder ==
  \/ CmpCall
  \/ Return

SpecOrder == Init /\ [][NextOrder]_vars

(***************************************************************************)
(* Definitions used to state the properties.                               *)
(***************************************************************************)
InGrid(b, c) == c.y < height(b) /\ c.x < width(b)

SquareAt(b, c) == b.squares[c.y + 1][c.x + 1]

\* Two coordinates one step apart along one axis.
Adjacent(c, d) ==
  (IF c.x >= d.x THEN c.x - d.x ELSE d.x - c.x)
    + (IF c.y >= d.y THEN c.y - d.y ELSE d.y - c.y) = 1

RECURSIVE Connected(_, _)

\* The coordinates of `cells` joined to `group` by steps between adjacent cells.
Connected(cells, group) ==
  LET more == group \cup {c \in cells : \E d \in group : Adjacent(c, d)}
  IN  IF more = group THEN group ELSE Connected(cells, more)

\* The squares occupied by the owner of `start` that a path of adjacent squares
\* of that owner joins to `start`; empty when `start` is not occupied.
SameOwnerGroup(b, start) ==
  IF InGrid(b, start) /\ SquareAt(b, start).tag = "Occupied"
  THEN Connected({c \in OccupiedCoordinates(b) :
                    SquareAt(b, c).player = SquareAt(b, start).player}, {start})
  ELSE {}

\* The squares attached to a root, by the search and by the definition.
Attached(b) == UNION {depth_first_search(b, b.roots[i]) : i \in 1..Len(b.roots)}
AttachedGroups(b) == UNION {SameOwnerGroup(b, b.roots[i]) : i \in 1..Len(b.roots)}

Count(s, v) == Cardinality({i \in 1..Len(s) : s[i] = v})

Err(error, position) == [tag |-> "Err", error |-> error, position |-> position]

\* C1: after truncate, every square still occupied is in depth_first_search of
\* some root, that is, joined to an occupied root through adjacent squares of its
\* own owner; when no root is occupied no square is occupied.
C1_TruncateLeavesAttached ==
  last.op = "truncate" =>
    /\ \A c \in OccupiedCoordinates(CurrentBoard) :
         /\ \E i \in 1..Len(roots) : c \in depth_first_search(CurrentBoard, roots[i])
         /\ c \in AttachedGroups(CurrentBoard)
    /\ (\A i \in 1..Len(roots) : roots[i] \notin OccupiedCoordinates(CurrentBoard))
         => OccupiedCoordinates(CurrentBoard) = {}

C1_Witness ==
  /\ last.op = "truncate"
  /\ Len(last.ret) > 0
  /\ OccupiedCoordinates(CurrentBoard) # {}

\* C2: truncate clears exactly the occupied squares outside the union of
\* depth_first_search over the roots; each cleared square has exactly one
\* Truncated change at its coordinate and its letter is passed to return_tile
\* exactly once; no other square has a change or a returned letter.
C2_TruncateClearsExactly ==
  last.op = "truncate" =>
    LET cleared == OccupiedCoordinates(pre) \ Attached(pre) IN
    /\ roots = pre.roots /\ orientations = pre.orientations
    /\ height(CurrentBoard) = height(pre) /\ width(CurrentBoard) = width(pre)
    /\ \A c \in GridCoordinates(pre) :
         SquareAt(CurrentBoard, c) = IF c \in cleared THEN Empty ELSE SquareAt(pre, c)
    /\ Len(last.ret) = Cardinality(cleared)
    /\ \A i \in 1..Len(last.ret) :
         /\ last.ret[i].action = "Truncated"
         /\ last.ret[i].detail.coordinate \in cleared
    /\ \A c \in cleared :
         Cardinality({i \in 1..Len(last.ret) : last.ret[i].detail.coordinate = c}) = 1
    /\ Len(last.returned) = Cardinality(cleared)
    /\ \A letter \in Letters :
         Count(last.returned, letter)
           = Cardinality({c \in cleared : SquareAt(pre, c).tile = letter})

C2_Witness ==
  /\ last.op = "truncate"
  /\ Len(last.returned) = 2
  /\ last.returned[1] # last.returned[2]
  /\ OccupiedCoordinates(CurrentBoard) # {}

\* C3: when set or swap returns an error the grid, the roots and the
\* orientations are what they were before the call; no swap is half-applied.
C3_ErrorsLeaveBoardUnchanged ==
  (last.op \in {"set", "swap"} /\ last.ret.tag = "Err") => CurrentBoard = pre

C3_Witness ==
  /\ last.op = "swap"
  /\ last.ret.tag = "Err"
  /\ last.ret.error = "UnownedSwap"
  /\ get(pre, last.positions[1]).square.player = last.player

\* C4: get_words returns (a finite list of words) for every board and every
\* position, also for an occupied square of row 0 or column 0.
C4_GetWordsReturns ==
  last.op = "get_words" => last.ret.tag = "Returns"

\* C5: get returns OutSideBoardDimensions exactly when y >= height or x >= width,
\* InvalidPosition exactly when the coordinate is in the grid and the square is
\* void, and otherwise Ok with the square; get does not change the board.
C5_GetClassifies ==
  last.op = "get" =>
    LET position == last.position
        outside == position.y >= height(pre) \/ position.x >= width(pre)
    IN  /\ (last.ret = Err("OutSideBoardDimensions", position)) <=> outside
        /\ (last.ret = Err("InvalidPosition", position))
             <=> (~outside /\ SquareAt(pre, position) = None)
        /\ (~outside /\ SquareAt(pre, position) # None)
             => /\ last.ret = [tag |-> "Ok", square |-> SquareAt(pre, position)]
                /\ last.ret.square.tag \in {"Empty", "Occupied"}
        /\ CurrentBoard = pre

C5_Witness ==
  /\ last.op = "get"
  /\ last.ret = Err("InvalidPosition", last.position)

\* C6: set returns NonExistentPlayer whenever player >= roots.len(), whatever the
\* coordinate; for a valid player it returns OutSideBoardDimensions beyond the
\* grid and InvalidPosition for a void square, as get classifies the position.
C6_SetErrors ==
  last.op = "set" =>
    LET position == last.position IN
    /\ last.player >= Len(pre.roots)
         => last.ret = [tag |-> "Err", error |-> "NonExistentPlayer",
                        index |-> last.player]
    /\ last.player < Len(pre.roots)
         => /\ ~InGrid(pre, position)
                 => last.ret = Err("OutSideBoardDimensions", position)
            /\ (InGrid(pre, position) /\ SquareAt(pre, position) = None)
                 => last.ret = Err("InvalidPosition", position)
            /\ (last.ret.tag = "Err" \/ get(pre, position).tag = "Err")
                 => last.ret = get(pre, position)

C6_Witness ==
  /\ last.op = "set"
  /\ last.player >= Len(pre.roots)
  /\ ~InGrid(pre, last.position)
  /\ last.ret.error = "NonExistentPlayer"

\* C7: for a valid player and a square of the grid that is not void (empty or
\* occupied by any player) set succeeds, returns the coordinate with
\* Occupied(player, letter), a following get returns Occupied(player, letter),
\* and every other square, the roots and the orientations are unchanged.
C7_SetWrites ==
  (/\ last.op = "set"
   /\ last.player < Len(pre.roots)
   /\ InGrid(pre, last.position)
   /\ SquareAt(pre, last.position) # None) =>
    /\ last.ret = [tag |-> "Ok", square |-> Occupied(last.player, last.value),
                   coordinate |-> last.position]
    /\ get(CurrentBoard, last.position)
         = [tag |-> "Ok", square |-> Occupied(last.player, last.value)]
    /\ \A c \in GridCoordinates(pre) \ {last.position} :
         SquareAt(CurrentBoard, c) = SquareAt(pre, c)
    /\ height(CurrentBoard) = height(pre) /\ width(CurrentBoard) = width(pre)
    /\ roots = pre.roots
    /\ orientations = pre.orientations

C7_Witness ==
  /\ last.op = "set"
  /\ last.ret.tag = "Ok"
  /\ SquareAt(pre, last.position).tag = "Occupied"
  /\ SquareAt(pre, last.position).player # last.player
  /\ SquareAt(CurrentBoard, last.position) = Occupied(last.player, last.value)

\* C8: clear of an occupied square empties it and returns the coordinate with
\* the square's prior Occupied value; for a void, empty or out-of-grid coordinate
\* it returns None and changes nothing; all other squares are unchanged.
C8_Clear ==
  last.op = "clear" =>
    LET position == last.position IN
    IF InGrid(pre, position) /\ SquareAt(pre, position).tag = "Occupied"
    THEN /\ last.ret = [tag |-> "Some", square |-> SquareAt(pre, position),
                        coordinate |-> position]
         /\ CurrentBoard = [pre EXCEPT !.squares = WithSquare(pre.squares, position, Empty)]
         /\ SquareAt(CurrentBoard, position) = Empty
         /\ \A c \in GridCoordinates(pre) \ {position} :
              SquareAt(CurrentBoard, c) = SquareAt(pre, c)
    ELSE /\ last.ret = [tag |-> "None"]
         /\ CurrentBoard = pre

C8_Witness ==
  /\ last.op = "clear"
  /\ last.ret.tag = "Some"
  /\ last.ret.square.tag = "Occupied"
  /\ OccupiedCoordinates(CurrentBoard) # {}

\* C9: depth_first_search returns the empty set for a start that is void, empty
\* or outside the grid; for a start occupied by p it returns exactly the squares
\* occupied by p that a path of adjacent squares occupied by p joins to the
\* start; squares of other players are not in it and do not join it.
C9_DepthFirstSearchIsGroup ==
  last.op = "depth_first_search" =>
    /\ last.ret = SameOwnerGroup(pre, last.position)
    /\ (~InGrid(pre, last.position) \/ SquareAt(pre, last.position).tag # "Occupied")
         => last.ret = {}
    /\ (InGrid(pre, last.position) /\ SquareAt(pre, last.position).tag = "Occupied")
         => /\ last.position \in last.ret
            /\ \A c \in last.ret :
                 /\ InGrid(pre, c)
                 /\ SquareAt(pre, c).tag = "Occupied"
                 /\ SquareAt(pre, c).player = SquareAt(pre, last.position).player

C9_Witness ==
  /\ last.op = "depth_first_search"
  /\ Cardinality(last.ret) >= 2
  /\ \E c \in OccupiedCoordinates(pre) \ last.ret : \E d \in last.ret : Adjacent(c, d)

\* C10: if b is in depth_first_search(a) then depth_first_search(b) equals
\* depth_first_search(a).
C10_DepthFirstSearchSameFromAnyStart ==
  last.op = "depth_first_search" =>
    \A b \in last.ret : depth_first_search(pre, b) = last.ret

C10_Witness ==
  /\ last.op = "depth_first_search"
  /\ Cardinality(last.ret) >= 2
  /\ \E c \in OccupiedCoordinates(pre) : c \notin last.ret

\* The square of the board at `c` is occupied by `player`.
OccupiedBy(b, c, player) ==
  /\ InGrid(b, c)
  /\ SquareAt(b, c).tag = "Occupied"
  /\ SquareAt(b, c).player = player

SwapChange(square, coordinate) ==
  [detail |-> [square |-> square, coordinate |-> coordinate], action |-> "Swapped"]

\* C11: a successful swap(player, [a, b], rules) leaves a with Occupied(player,
\* old letter of b) and b with Occupied(player, old letter of a), every other
\* square unchanged, and returns exactly two Swapped changes, the first with the
\* new detail of a and the second with the new detail of b.
C11_SwapExchangesLetters ==
  (last.op = "swap" /\ last.ret.tag = "Ok") =>
    LET a == last.positions[1]
        b == last.positions[2]
        newA == Occupied(last.player, SquareAt(pre, b).tile)
        newB == Occupied(last.player, SquareAt(pre, a).tile)
    IN  /\ SquareAt(CurrentBoard, a) = newA
        /\ SquareAt(CurrentBoard, b) = newB
        /\ \A c \in GridCoordinates(pre) \ {a, b} :
             SquareAt(CurrentBoard, c) = SquareAt(pre, c)
        /\ height(CurrentBoard) = height(pre) /\ width(CurrentBoard) = width(pre)
        /\ roots = pre.roots /\ orientations = pre.orientations
        /\ last.ret.changes = <<SwapChange(newA, a), SwapChange(newB, b)>>

C11_Witness ==
  /\ last.op = "swap"
  /\ last.ret.tag = "Ok"
  /\ SquareAt(pre, last.positions[1]).tile # SquareAt(pre, last.positions[2]).tile
  /\ SquareAt(CurrentBoard, last.positions[1]).tile = SquareAt(pre, last.positions[2]).tile

\* C12: for a # b with both squares occupied by player, swap succeeds under
\* Universal however the squares lie; under Contiguous it succeeds exactly when b
\* is in depth_first_search(a) and fails with DisjointSwap otherwise; under None
\* it fails with NoSwapping.
C12_SwapRules ==
  (/\ last.op = "swap"
   /\ last.positions[1] # last.positions[2]
   /\ OccupiedBy(pre, last.positions[1], last.player)
   /\ OccupiedBy(pre, last.positions[2], last.player)) =>
    LET joined == last.positions[2] \in depth_first_search(pre, last.positions[1]) IN
    /\ last.swap_rules = "Universal" => last.ret.tag = "Ok"
    /\ last.swap_rules = "Contiguous"
         => /\ last.ret.tag = "Ok" <=> joined
            /\ ~joined => last.ret = [tag |-> "Err", error |-> "DisjointSwap"]
    /\ last.swap_rules = "None" => last.ret = [tag |-> "Err", error |-> "NoSwapping"]

C12_Witness ==
  /\ last.op = "swap"
  /\ last.swap_rules = "Universal"
  /\ last.ret.tag = "Ok"
  /\ last.positions[2] \notin depth_first_search(pre, last.positions[1])

\* C13 as stated: for a # b, whenever the two squares are not both occupied by
\* player, swap fails with UnoccupiedSwap or UnownedSwap under every rule.
C13_SwapFailsUnoccupiedOrUnowned ==
  (/\ last.op = "swap"
   /\ last.positions[1] # last.positions[2]
   /\ ~(/\ OccupiedBy(pre, last.positions[1], last.player)
        /\ OccupiedBy(pre, last.positions[2], last.player))) =>
    /\ last.ret.tag = "Err"
    /\ last.ret.error \in {"UnoccupiedSwap", "UnownedSwap"}

\* C13 amended: for a # b, whenever the two squares are not both occupied by
\* player, swap fails under every rule and changes nothing.  Under None the
\* error is NoSwapping.  Under Contiguous it is DisjointSwap unless b is in
\* depth_first_search(a), and then UnownedSwap.  Under Universal it is decided
\* by the first of a, b that is not occupied by player: UnoccupiedSwap when
\* that square is empty, UnownedSwap when another player occupies it, and the
\* error of get when it is void or outside the grid.
C13_SwapFailsByRule ==
  (/\ last.op = "swap"
   /\ last.positions[1] # last.positions[2]
   /\ ~(/\ OccupiedBy(pre, last.positions[1], last.player)
        /\ OccupiedBy(pre, last.positions[2], last.player))) =>
    LET a == last.positions[1]
        b == last.positions[2]
        bad == IF OccupiedBy(pre, a, last.player) THEN b ELSE a
        failure(error) == [tag |-> "Err", error |-> error]
    IN  /\ last.ret.tag = "Err"
        /\ CurrentBoard = pre
        /\ last.swap_rules = "None" => last.ret = failure("NoSwapping")
        /\ last.swap_rules = "Contiguous"
             => last.ret = IF b \in depth_first_search(pre, a)
                           THEN failure("UnownedSwap")
                           ELSE failure("DisjointSwap")
        /\ last.swap_rules = "Universal"
             => last.ret = IF ~InGrid(pre, bad)
                           THEN Err("OutSideBoardDimensions", bad)
                           ELSE IF SquareAt(pre, bad) = None
                           THEN Err("InvalidPosition", bad)
                           ELSE IF SquareAt(pre, bad) = Empty
                           THEN failure("UnoccupiedSwap")
                           ELSE failure("UnownedSwap")

C13_Witness ==
  /\ last.op = "swap"
  /\ last.swap_rules = "Contiguous"
  /\ last.ret.tag = "Err"
  /\ last.ret.error = "UnownedSwap"
  /\ last.positions[2] \in depth_first_search(pre, last.positions[1])

\* C14: swap(player, [a, a], rules) fails with SelfSwap for every player, every
\* coordinate a and every rule, None included, and leaves the board unchanged.
C14_SelfSwap ==
  (last.op = "swap" /\ last.positions[1] = last.positions[2]) =>
    /\ last.ret = [tag |-> "Err", error |-> "SelfSwap"]
    /\ CurrentBoard = pre

C14_Witness ==
  /\ last.op = "swap"
  /\ last.positions[1] = last.positions[2]
  /\ last.swap_rules = "None"
  /\ OccupiedBy(pre, last.positions[1], last.player)
  /\ last.ret.error = "SelfSwap"

\* C15: when swap(player, [a, b], rules) succeeds, the same call made again
\* succeeds too and the board is then the board before the first swap.
C15_SwapTwiceRestores ==
  (last.op = "swap" /\ last.ret.tag = "Ok") =>
    LET again == swap(CurrentBoard, last.player, last.positions, last.swap_rules) IN
    /\ again.ret.tag = "Ok"
    /\ again.board = pre

C15_Witness ==
  /\ last.op = "swap"
  /\ last.ret.tag = "Ok"
  /\ last.swap_rules = "Contiguous"
  /\ CurrentBoard # pre

\* The coordinates of a word.
Elems(w) == {w[i] : i \in 1..Len(w)}

\* Each coordinate of the word is the one before it moved by (dx, dy).
StepsBy(w, dx, dy) ==
  \A k \in 1..(Len(w) - 1) : w[k + 1] = Coordinate(w[k].x + dx, w[k].y + dy)

TopToBottom(w) == StepsBy(w, 0, 1)
BottomToTop(w) == \A k \in 1..(Len(w) - 1) : w[k] = Coordinate(w[k + 1].x, w[k + 1].y + 1)
LeftToRight(w) == StepsBy(w, 1, 0)
RightToLeft(w) == \A k \in 1..(Len(w) - 1) : w[k] = Coordinate(w[k + 1].x + 1, w[k + 1].y)

Between(i, j) == IF i <= j THEN i..j ELSE j..i

\* The longest run of squares of the owner of `p` through `p` in its column and
\* in its row.
VerticalRun(b, p) ==
  {c \in GridCoordinates(b) :
     /\ c.x = p.x
     /\ \A y \in Between(c.y, p.y) : OccupiedBy(b, Coordinate(p.x, y), SquareAt(b, p).player)}
HorizontalRun(b, p) ==
  {c \in GridCoordinates(b) :
     /\ c.y = p.y
     /\ \A x \in Between(c.x, p.x) : OccupiedBy(b, Coordinate(x, p.y), SquareAt(b, p).player)}

IsVerticalWord(w, run) ==
  Elems(w) = run /\ Len(w) = Cardinality(run) /\ (TopToBottom(w) \/ BottomToTop(w))
IsHorizontalWord(w, run) ==
  Elems(w) = run /\ Len(w) = Cardinality(run) /\ (LeftToRight(w) \/ RightToLeft(w))

IsOccupied(b, c) == InGrid(b, c) /\ SquareAt(b, c).tag = "Occupied"

\* C16: get_words returns no word for a square that is empty, void or off the
\* grid; for a square occupied by p every word it returns contains the position,
\* holds only squares occupied by p and is, up to reversal, the longest run of
\* squares of p through the position along one axis, the vertical word before
\* the horizontal one.  (A call that does not return is the subject of C4.)
C16_GetWordsAreRuns ==
  last.op = "get_words" =>
    LET p == last.position IN
    /\ ~IsOccupied(pre, p) => last.ret = [tag |-> "Returns", words |-> << >>]
    /\ (IsOccupied(pre, p) /\ last.ret.tag = "Returns") =>
         LET ws == last.ret.words
             V == VerticalRun(pre, p)
             H == HorizontalRun(pre, p)
         IN  /\ Len(ws) \in {1, 2}
             /\ \A i \in 1..Len(ws) :
                  /\ p \in Elems(ws[i])
                  /\ \A c \in Elems(ws[i]) : OccupiedBy(pre, c, SquareAt(pre, p).player)
                  /\ IsVerticalWord(ws[i], V) \/ IsHorizontalWord(ws[i], H)
             /\ Len(ws) = 2 => IsVerticalWord(ws[1], V) /\ IsHorizontalWord(ws[2], H)

C16_Witness ==
  /\ last.op = "get_words"
  /\ last.ret.tag = "Returns"
  /\ Len(last.ret.words) = 1
  /\ Len(last.ret.words[1]) = 2
  /\ \E c \in OccupiedCoordinates(pre) \ Elems(last.ret.words[1]) :
       \E d \in Elems(last.ret.words[1]) : Adjacent(c, d)

\* C17: in get_words a word of length 1 along one axis is dropped whenever the
\* word along the other axis is longer; when both have length 1 the result is
\* exactly one word, [position].
C17_GetWordsSingleTile ==
  (last.op = "get_words" /\ IsOccupied(pre, last.position)
     /\ last.ret.tag = "Returns") =>
    LET p == last.position
        ws == last.ret.words
        V == VerticalRun(pre, p)
        H == HorizontalRun(pre, p)
    IN  /\ (Cardinality(V) = 1 /\ Cardinality(H) > 1)
             => Len(ws) = 1 /\ Elems(ws[1]) = H
        /\ (Cardinality(H) = 1 /\ Cardinality(V) > 1)
             => Len(ws) = 1 /\ Elems(ws[1]) = V
        /\ (Cardinality(V) = 1 /\ Cardinality(H) = 1) => ws = << <<p>> >>

\* The words of get_words read as the orientation of their owner says: `down`
\* are the orientations whose vertical words run from top to bottom, `right`
\* those whose horizontal words run from left to right.
WordsReadAs(down, right) ==
  (last.op = "get_words" /\ IsOccupied(pre, last.position)
     /\ last.ret.tag = "Returns") =>
    LET orientation == pre.orientations[SquareAt(pre, last.position).player + 1]
        ws == last.ret.words
    IN  \A i \in 1..Len(ws) :
          Len(ws[i]) >= 2 =>
            IF ws[i][1].x = ws[i][2].x
            THEN IF orientation \in down THEN TopToBottom(ws[i]) ELSE BottomToTop(ws[i])
            ELSE IF orientation \in right THEN LeftToRight(ws[i]) ELSE RightToLeft(ws[i])

\* C18 as stated: get_words returns the vertical word from top to bottom and
\* the horizontal word from left to right when the owner's orientation is South
\* or East, and both words reversed when it is North or West.
C18_WordsForwardForSouthEast ==
  WordsReadAs({"South", "East"}, {"South", "East"})

\* C18 amended: get_words returns the vertical word from top to bottom when
\* the owner's orientation is South or West and from bottom to top when it is
\* North or East; it returns the horizontal word from left to right when the
\* orientation is South or East and from right to left when it is North or West.
C18_WordsReadByOrientation ==
  WordsReadAs({"South", "West"}, {"South", "East"})

C18_Witness ==
  /\ last.op = "get_words"
  /\ IsOccupied(pre, last.position)
  /\ pre.orientations[SquareAt(pre, last.position).player + 1] = "East"
  /\ last.ret.tag = "Returns"
  /\ Len(last.ret.words) = 2
  /\ BottomToTop(last.ret.words[1])
  /\ LeftToRight(last.ret.words[2])

\* C19: collect_combanants(player, position) returns attackers equal to
\* get_words(position) and defenders holding every word of get_words(n) for the
\* neighbours n of the position occupied by another player than `player`, no
\* other word, and no word twice.
C19_CollectCombanants ==
  (last.op = "collect_combanants" /\ last.ret.tag = "Returns") =>
    LET neighbours == {n \in OccupiedCoordinates(pre) :
                         /\ Adjacent(n, last.position)
                         /\ SquareAt(pre, n).player # last.player}
        defenders == last.ret.defenders
    IN  /\ last.ret.attackers = get_words(pre, last.position).words
        /\ Elems(defenders) = UNION {Elems(get_words(pre, n).words) : n \in neighbours}
        /\ \A i \in 1..Len(defenders), j \in 1..Len(defenders) :
             i # j => defenders[i] # defenders[j]

\* The coordinates of a list of words, in order.
RECURSIVE Flatten(_)
Flatten(words) == IF words = << >> THEN << >> ELSE Head(words) \o Flatten(Tail(words))

LettersOf(b, word) == [i \in 1..Len(word) |-> SquareAt(b, word[i]).tile]

StepsFrom(b, c) ==
  {neighbouring_squares(b, c)[i][1] : i \in 1..Len(neighbouring_squares(b, c))}

\* The squares of other players two successive steps from a square of the
\* viewer, and the coordinates of the words through them.
ReachedInTwoSteps(b, viewer) ==
  {c2 \in OccupiedCoordinates(b) :
     /\ SquareAt(b, c2).player # viewer
     /\ \E c \in OccupiedCoordinates(b) :
          /\ SquareAt(b, c).player = viewer
          /\ \E c1 \in StepsFrom(b, c) : c2 \in StepsFrom(b, c1)}
WordCoordinates(r) == IF r.tag = "Returns" THEN Elems(Flatten(r.words)) ELSE {}
VisibilitySet(b, viewer) ==
  UNION {WordCoordinates(get_words(b, c)) : c \in ReachedInTwoSteps(b, viewer)}

\* C21: the board fog_of_war(viewer) returns is the original one except that a
\* square occupied by another player than the viewer is Empty exactly when it is
\* not in the visibility set, the union of get_words(c) over the squares c of
\* other players reached by two successive neighbouring_squares steps from a
\* square of the viewer; the viewer's squares, empty and void squares, roots,
\* orientations and dimensions are those of the original, and the original
\* board is not modified.  (It returns only when get_words returned at each
\* square reached.)
C21_FogOfWarHidesUnseen ==
  (last.op = "fog_of_war" /\ last.ret.tag = "Returns") =>
    LET out == last.ret.board
        viewer == last.player_index
    IN  /\ CurrentBoard = pre
        /\ \A c \in ReachedInTwoSteps(pre, viewer) : get_words(pre, c).tag = "Returns"
        /\ out.roots = pre.roots
        /\ out.orientations = pre.orientations
        /\ height(out) = height(pre)
        /\ \A r \in 1..height(pre) : Len(out.squares[r]) = width(pre)
        /\ \A c \in GridCoordinates(pre) :
             SquareAt(out, c) =
               IF /\ SquareAt(pre, c).tag = "Occupied"
                  /\ SquareAt(pre, c).player # viewer
                  /\ c \notin VisibilitySet(pre, viewer)
               THEN Empty
               ELSE SquareAt(pre, c)

C21_Witness ==
  /\ last.op = "fog_of_war"
  /\ last.ret.tag = "Returns"
  /\ \E c \in OccupiedCoordinates(pre) : SquareAt(pre, c).player = last.player_index
  /\ \E c \in OccupiedCoordinates(pre) : SquareAt(last.ret.board, c) = Empty
  /\ \E c \in OccupiedCoordinates(last.ret.board) :
       SquareAt(pre, c).player # last.player_index

\* C22: filter_to_player(viewer, visibility, winner) returns the board itself
\* when winner is Some, under either visibility, or when visibility is Standard,
\* and returns what fog_of_war(viewer) returns when winner is None and
\* visibility is FogOfWar.
C22_FilterToPlayer ==
  last.op = "filter_to_player" =>
    /\ CurrentBoard = pre
    /\ last.ret = IF last.winner # None \/ last.visibility = "Standard"
                  THEN [tag |-> "Returns", board |-> pre]
                  ELSE fog_of_war(pre, last.player_index)

C22_Witness ==
  /\ last.op = "filter_to_player"
  /\ last.winner = None
  /\ last.visibility = "FogOfWar"
  /\ last.ret.tag = "Returns"
  /\ last.ret.board # pre

\* What a trim that directly follows a grow leaves is the board the grow was
\* called on: the same grid, dimensions and roots.
GrowTrimRestores ==
  /\ squares = last.before.squares
  /\ roots = last.before.roots
  /\ height(CurrentBoard) = height(last.before)
  /\ width(CurrentBoard) = width(last.before)

\* The first and the last row and the first and the last column of the grid
\* each hold a square that is not void.
OuterEdgesHold(b) ==
  /\ \E c \in GridCoordinates(b) \ VoidCoordinates(b) : c.y = 0
  /\ \E c \in GridCoordinates(b) \ VoidCoordinates(b) : c.y = height(b) - 1
  /\ \E c \in GridCoordinates(b) \ VoidCoordinates(b) : c.x = 0
  /\ \E c \in GridCoordinates(b) \ VoidCoordinates(b) : c.x = width(b) - 1

\* C23 as stated: for every board, also one whose outermost rows or columns
\* are void, grow() and then trim() gives the grid, the dimensions and the roots
\* the board had before grow().
C23_GrowTrimRestoresAny ==
  (last.op = "trim" /\ last.grown) => GrowTrimRestores

\* C23 amended: for every board whose first and last row and first and last
\* column each hold a square that is not void, grow() and then trim() gives the
\* grid, the dimensions and the roots the board had before grow().
C23_GrowTrimRestoresTight ==
  (last.op = "trim" /\ last.grown /\ OuterEdgesHold(last.before)) => GrowTrimRestores

C23_Witness ==
  /\ last.op = "trim"
  /\ last.grown
  /\ OuterEdgesHold(last.before)
  /\ OccupiedCoordinates(last.before) # {}
  /\ width(pre) = width(last.before) + 2
  /\ GrowTrimRestores

C25_Rectangular ==
  /\ \A r \in 1..Len(squares) : Len(squares[r]) = Len(squares[1])
  /\ Len(roots) = Len(orientations)

C25_Witness ==
  /\ last.op = "trim"
  /\ ~last.grown
  /\ width(CurrentBoard) < width(pre)
  /\ height(CurrentBoard) < height(pre)
  /\ OccupiedCoordinates(CurrentBoard) # {}

\* C26 as stated: the order of Coordinate is y-major: (x1, y1) < (x2, y2)
\* exactly when y1 < y2, or y1 = y2 and x1 < x2.
C26_OrderYMajor ==
  last.op = "cmp" =>
    (last.ret = "Less"
       <=> (last.a.y < last.b.y \/ (last.a.y = last.b.y /\ last.a.x < last.b.x)))

\* C26 amended: the order of Coordinate is x-major: (x1, y1) < (x2, y2)
\* exactly when x1 < x2, or x1 = x2 and y1 < y2.
C26_OrderXMajor ==
  last.op = "cmp" =>
    (last.ret = "Less"
       <=> (last.a.x < last.b.x \/ (last.a.x = last.b.x /\ last.a.y < last.b.y)))

C26_Witness ==
  /\ last.op = "cmp"
  /\ last.a.x < last.b.x
  /\ last.a.y > last.b.y
  /\ last.ret = "Less"

\* C27: after truncate, every occupied square of a player p is in the group of
\* squares of p joined to p's own root; tiles of p joined only to the root of
\* another player do not survive.
C27_TruncateLeavesOwnRootGroup ==
  last.op = "truncate" =>
    \A c \in OccupiedCoordinates(CurrentBoard) :
      LET p == SquareAt(CurrentBoard, c).player IN
      /\ OccupiedBy(CurrentBoard, roots[p + 1], p)
      /\ c \in SameOwnerGroup(CurrentBoard, roots[p + 1])

\* C28: neighbouring_squares(p) is the squares one step North, East, South and
\* West of p, in that order, that are in the grid and not void, each with its
\* square; p itself is never among them and no coordinate is there twice.
C28_NeighbouringSquares ==
  last.op = "neighbouring_squares" =>
    LET p == last.position
        around == << <<p.x, p.y - 1>>, <<p.x + 1, p.y>>, <<p.x, p.y + 1>>, <<p.x - 1, p.y>> >>
        there(i) == /\ around[i][1] >= 0
                    /\ around[i][2] >= 0
                    /\ InGrid(pre, Coordinate(around[i][1], around[i][2]))
                    /\ SquareAt(pre, Coordinate(around[i][1], around[i][2])) # None
        pick(i) == IF there(i)
                   THEN << <<Coordinate(around[i][1], around[i][2]),
                             SquareAt(pre, Coordinate(around[i][1], around[i][2]))>> >>
                   ELSE << >>
    IN  /\ last.ret = pick(1) \o pick(2) \o pick(3) \o pick(4)
        /\ \A i \in 1..Len(last.ret) : last.ret[i][1] # p
        /\ \A i \in 1..Len(last.ret), j \in 1..Len(last.ret) :
             i # j => last.ret[i][1] # last.ret[j][1]

\* C29: in the board fog_of_war(viewer) returns, every square of another
\* player that is adjacent to a square of the viewer keeps its tile.
C29_ContactSquaresStay ==
  (last.op = "fog_of_war" /\ last.ret.tag = "Returns") =>
    \A c \in OccupiedCoordinates(pre) :
      (/\ SquareAt(pre, c).player # last.player_index
       /\ \E d \in OccupiedCoordinates(pre) :
            SquareAt(pre, d).player = last.player_index /\ Adjacent(c, d))
        => SquareAt(last.ret.board, c) = SquareAt(pre, c)

\* C30: set, clear, swap and truncate, failing or not, leave the width and the
\* height of the grid, its void squares, the roots and the orientations as they
\* were, and the owner of every occupied square is below the number of roots.
C30_ShapeIsFixed ==
  /\ last.op \in {"set", "clear", "swap", "truncate"} =>
       /\ height(CurrentBoard) = height(pre)
       /\ \A r \in 1..height(pre) : Len(squares[r]) = Len(pre.squares[r])
       /\ VoidCoordinates(CurrentBoard) = VoidCoordinates(pre)
       /\ roots = pre.roots
       /\ orientations = pre.orientations
  /\ \A c \in OccupiedCoordinates(CurrentBoard) :
       SquareAt(CurrentBoard, c).player < Len(roots)

C30_Witness ==
  /\ last.op = "set"
  /\ last.player >= Len(roots)
  /\ InGrid(pre, last.position)
  /\ SquareAt(pre, last.position).tag = "Occupied"
  /\ last.ret.tag = "Err"
  /\ CurrentBoard = pre

====
